---- MODULE Spec2Model ----
(***************************************************************************)
(* VersionCompatibility (src/lib/versionCompatibility.js): a matrix of     *)
(* primary versions -> compatibility ranges over a secondary version       *)
(* space, with the queries all / compatibleWith / recommendedFor and the   *)
(* mutator setCompatibilityMatrix.                                         *)
(*                                                                         *)
(* The version engine works on the characters of each string, so that     *)
(* cleaning a version ("v1.0.1" -> "1.0.1") and normalising a range        *)
(* ("1.6.x" -> ">=1.6.0-0 <1.7.0-0") are computed and not assumed.         *)
(*                                                                         *)
(* Spec:      construction, setCompatibilityMatrix and the queries.       *)
(* SpecAlias: a caller that keeps and writes the object the               *)
(*            compatibilityMatrix property returns.                        *)
(* SpecSteps: setCompatibilityMatrix one step at a time, readers between.  *)
(***************************************************************************)
EXTENDS Integers, Sequences, FiniteSets, TLC

(***************************************************************************)
(* Characters and generic string helpers                                   *)
(***************************************************************************)

\* The characters the modelled strings use, in ASCII order (JavaScript's
\* string comparison, used for non-numeric pre-release identifiers).
Alphabet ==
    << " ", "+", "-", ".", "0", "1", "2", "3", "4", "5", "6", "7", "8", "9",
       "<", "=", ">", "R", "X", "a", "b", "e", "t", "v", "x" >>

Digits == {"0", "1", "2", "3", "4", "5", "6", "7", "8", "9"}

Letters == {"R", "X", "a", "b", "e", "t", "v", "x"}

CharOrd(c) == CHOOSE i \in 1..Len(Alphabet) : Alphabet[i] = c

DigitVal(c) == CharOrd(c) - CharOrd("0")

DigitChar(n) == Alphabet[CharOrd("0") + n]

\* First index of character c in s, 0 when absent.
IndexOf(s, c) ==
    IF \E i \in 1..Len(s) : s[i] = c
    THEN CHOOSE i \in 1..Len(s) : s[i] = c /\ \A j \in 1..(i - 1) : s[j] # c
    ELSE 0

Drop(s, n) == SubSeq(s, n + 1, Len(s))

Take(s, n) == SubSeq(s, 1, n)

RECURSIVE Split(_, _)
\* s.split(sep) for a one-character separator.
Split(s, sep) ==
    LET i == IndexOf(s, sep)
    IN  IF i = 0 THEN << s >>
        ELSE << Take(s, i - 1) >> \o Split(Drop(s, i), sep)

RECURSIVE Join(_, _)
\* parts.join(sep)
Join(parts, sep) ==
    IF Len(parts) = 0 THEN << >>
    ELSE IF Len(parts) = 1 THEN parts[1]
    ELSE parts[1] \o sep \o Join(Tail(parts), sep)

RECURSIVE TrimLeft(_)
TrimLeft(s) == IF Len(s) > 0 /\ s[1] = " " THEN TrimLeft(Tail(s)) ELSE s

RECURSIVE TrimRight(_)
TrimRight(s) ==
    IF Len(s) > 0 /\ s[Len(s)] = " " THEN TrimRight(Take(s, Len(s) - 1)) ELSE s

\* String.prototype.trim
Trim(s) == TrimRight(TrimLeft(s))

\* Lexicographic comparison of two strings by character code: -1, 0 or 1.
RECURSIVE StrCompare(_, _)
StrCompare(a, b) ==
    IF Len(a) = 0 /\ Len(b) = 0 THEN 0
    ELSE IF Len(a) = 0 THEN -1
    ELSE IF Len(b) = 0 THEN 1
    ELSE IF CharOrd(a[1]) < CharOrd(b[1]) THEN -1
    ELSE IF CharOrd(a[1]) > CharOrd(b[1]) THEN 1
    ELSE StrCompare(Tail(a), Tail(b))

(***************************************************************************)
(* Bounds and the inputs drawn from them                                   *)
(***************************************************************************)

\* Entries of a caller-supplied raw matrix.
MaxEntries == 2

\* The strings of the model and the characters each consists of. A string
\* is named by its text; the engine works on its characters.
Spelling ==
    ("" :> << >>)
    @@ ("v1.0.1" :> << "v", "1", ".", "0", ".", "1" >>)
    @@ ("1.0.1" :> << "1", ".", "0", ".", "1" >>)
    @@ ("v1.0.2-beta" :>
        << "v", "1", ".", "0", ".",
           "2", "-", "b", "e", "t", "a" >>)
    @@ ("1.0.2-beta" :>
        << "1", ".", "0", ".", "2",
           "-", "b", "e", "t", "a" >>)
    @@ ("5.02" :> << "5", ".", "0", "2" >>)
    @@ (">1.5.2-R0.2 <1.6.5" :>
        << ">", "1", ".", "5", ".", "2", "-", "R", "0",
           ".", "2", " ", "<", "1", ".", "6", ".", "5" >>)
    @@ (">1.5.2-R0.2 <1.6.5-0" :>
        << ">", "1", ".", "5", ".", "2", "-", "R", "0", ".",
           "2", " ", "<", "1", ".", "6", ".", "5", "-", "0" >>)
    @@ ("1.6.x" :> << "1", ".", "6", ".", "x" >>)
    @@ (">=1.6.0-0 <1.7.0-0" :>
        << ">", "=", "1", ".", "6", ".", "0", "-", "0",
           " ", "<", "1", ".", "7", ".", "0", "-", "0" >>)
    @@ (">5.02" :> << ">", "5", ".", "0", "2" >>)
    @@ ("1.5.3" :> << "1", ".", "5", ".", "3" >>)
    @@ ("1.6.4" :> << "1", ".", "6", ".", "4" >>)
    @@ ("v1.6.4" :> << "v", "1", ".", "6", ".", "4" >>)
    @@ ("1.6.5" :> << "1", ".", "6", ".", "5" >>)
    @@ ("1.8.0" :> << "1", ".", "8", ".", "0" >>)

Chars(s) == Spelling[s]

\* The string with the given characters.
Str(chars) == CHOOSE s \in DOMAIN Spelling : Spelling[s] = chars

\* Raw matrix keys: "v1.0.1" and "1.0.1" clean to the same version, "5.02" is
\* no semantic version (src/unnamed/part_000:50).
RawKeys == {"v1.0.1", "1.0.1", "v1.0.2-beta", "5.02"}

\* Raw ranges; ">5.02" is no range (src/unnamed/part_000:56).
RawRanges == {">1.5.2-R0.2 <1.6.5", "1.6.x", ">5.02"}

\* Query strings: 1.5.3 satisfies the first range only, 1.6.4 both, 1.6.5
\* the second only, 1.8.0 neither; "5.02" is no version.
Queries == {"1.5.3", "1.6.4", "v1.6.4", "1.6.5", "1.8.0", "5.02"}

(***************************************************************************)
(* The semantic-version engine (the semver dependency)                     *)
(***************************************************************************)

\* NUMERICIDENTIFIER: 0|[1-9]\d*
IsNumericId(s) ==
    /\ Len(s) > 0
    /\ \A i \in 1..Len(s) : s[i] \in Digits
    /\ (Len(s) > 1 => s[1] # "0")

\* NONNUMERICIDENTIFIER: \d*[a-zA-Z-][a-zA-Z0-9-]*
IsNonNumericId(s) ==
    /\ Len(s) > 0
    /\ \A i \in 1..Len(s) : s[i] \in Digits \cup Letters \cup {"-"}
    /\ \E i \in 1..Len(s) : s[i] \notin Digits

IsPrereleaseId(s) == IsNumericId(s) \/ IsNonNumericId(s)

\* BUILDIDENTIFIER: [0-9A-Za-z-]+
IsBuildId(s) ==
    /\ Len(s) > 0
    /\ \A i \in 1..Len(s) : s[i] \in Digits \cup Letters \cup {"-"}

RECURSIVE NumVal(_)
NumVal(s) ==
    IF Len(s) = 0 THEN 0
    ELSE 10 * NumVal(Take(s, Len(s) - 1)) + DigitVal(s[Len(s)])

RECURSIVE NumStr(_)
NumStr(n) ==
    IF n < 10 THEN << DigitChar(n) >>
    ELSE NumStr(n \div 10) \o << DigitChar(n % 10) >>

NoVersion == [ok |-> FALSE]

\* new SemVer(s) in strict mode: v?MAJOR.MINOR.PATCH[-PRERELEASE][+BUILD],
\* surrounding whitespace trimmed. ok = FALSE where the constructor throws.
SemVer(s) ==
    LET t      == Trim(s)
        u      == IF Len(t) > 0 /\ t[1] = "v" THEN Tail(t) ELSE t
        plus   == IndexOf(u, "+")
        nobld  == IF plus = 0 THEN u ELSE Take(u, plus - 1)
        build  == IF plus = 0 THEN << >> ELSE Split(Drop(u, plus), ".")
        dash   == IndexOf(nobld, "-")
        main   == Split(IF dash = 0 THEN nobld ELSE Take(nobld, dash - 1), ".")
        pre    == IF dash = 0 THEN << >> ELSE Split(Drop(nobld, dash), ".")
    IN  IF /\ Len(main) = 3
           /\ \A i \in 1..3 : IsNumericId(main[i])
           /\ \A i \in 1..Len(pre) : IsPrereleaseId(pre[i])
           /\ \A i \in 1..Len(build) : IsBuildId(build[i])
        THEN [ok |-> TRUE,
              major |-> NumVal(main[1]), minor |-> NumVal(main[2]),
              patch |-> NumVal(main[3]), prerelease |-> pre]
        ELSE NoVersion

\* SemVer.prototype.format: the canonical string (no "v", no build metadata).
Format(ver) ==
    NumStr(ver.major) \o << "." >> \o NumStr(ver.minor) \o << "." >>
        \o NumStr(ver.patch)
        \o (IF Len(ver.prerelease) = 0 THEN << >>
            ELSE << "-" >> \o Join(ver.prerelease, << "." >>))

\* The constructor's result on each string of the model, computed once.
SemVerOf == [s \in DOMAIN Spelling |-> SemVer(Spelling[s])]

ParseVersion(s) == SemVerOf[s]

\* semver.clean(version): the canonical string, or no value.
FormatParsed(p) ==
    IF p.ok THEN [ok |-> TRUE, str |-> Str(Format(p))] ELSE [ok |-> FALSE]

Clean(s) == FormatParsed(ParseVersion(s))

Sign(n) == IF n < 0 THEN -1 ELSE IF n > 0 THEN 1 ELSE 0

\* compareIdentifiers: numeric identifiers by value and below the others,
\* the others by character code.
CompareIdentifiers(a, b) ==
    IF IsNumericId(a) /\ IsNumericId(b) THEN Sign(NumVal(a) - NumVal(b))
    ELSE IF IsNumericId(a) THEN -1
    ELSE IF IsNumericId(b) THEN 1
    ELSE StrCompare(a, b)

RECURSIVE ComparePre(_, _)
\* The identifiers compared c: the first difference decides, and a list that
\* ends first is below.
ComparePreFrom(c, p, q) ==
    IF c # 0 THEN c
    ELSE IF Len(p) = 1 /\ Len(q) = 1 THEN 0
    ELSE IF Len(p) = 1 THEN -1
    ELSE IF Len(q) = 1 THEN 1
    ELSE ComparePre(Tail(p), Tail(q))

\* SemVer.prototype.comparePre: a release is above its pre-releases.
ComparePre(p, q) ==
    IF Len(p) = 0 /\ Len(q) = 0 THEN 0
    ELSE IF Len(p) = 0 THEN 1
    ELSE IF Len(q) = 0 THEN -1
    ELSE ComparePreFrom(CompareIdentifiers(p[1], q[1]), p, q)

\* SemVer.prototype.compare on two parsed versions.
CompareParsed(a, b) ==
    IF a.major # b.major THEN Sign(a.major - b.major)
    ELSE IF a.minor # b.minor THEN Sign(a.minor - b.minor)
    ELSE IF a.patch # b.patch THEN Sign(a.patch - b.patch)
    ELSE ComparePre(a.prerelease, b.prerelease)

\* semver.compare(a, b) on two version strings (both parse).
Compare(a, b) == CompareParsed(ParseVersion(a), ParseVersion(b))

\* semver.rcompare(a, b) == compare(b, a)
RCompare(a, b) == Compare(b, a)

\* isX(id): a missing part, "x" or "X" (an x-range wildcard).
IsX(id) == id = << "x" >> \/ id = << "X" >>

NoRange == [ok |-> FALSE]

Comparator(op, M, m, p, pre) ==
    [op |-> op,
     semver |-> [ok |-> TRUE, major |-> M, minor |-> m, patch |-> p,
                 prerelease |-> pre]]

\* The operator a comparator string starts with: ">=", "<=", ">", "<" or "".
OperatorOf(c) ==
    IF Len(c) >= 2 /\ c[1] \in {"<", ">"} /\ c[2] = "=" THEN << c[1], "=" >>
    ELSE IF Len(c) >= 1 /\ c[1] \in {"<", ">"} THEN << c[1] >>
    ELSE << >>

\* replaceXRange: a comparator on a partial version, M[.m[.p]] with x parts.
\*   1.7.x  -> >=1.7.0-0 <1.8.0-0      1.x   -> >=1.0.0-0 <2.0.0-0
\*   <1.6.x -> <1.6.0-0                >1.6.x -> >=1.7.0-0
\* (x in the major position, "any version", is outside the modelled grammar)
ExpandXRange(op, parts) ==
    LET n   == Len(parts)
        xm  == n < 2 \/ IsX(parts[2])
        xp  == xm \/ n < 3 \/ IsX(parts[3])
        M   == NumVal(parts[1])
        m   == IF xm THEN 0 ELSE NumVal(parts[2])
        zero == << << "0" >> >>
    IN  IF ~ (/\ n \in 1..3
              /\ IsNumericId(parts[1])
              /\ \A i \in 2..n : IsNumericId(parts[i]) \/ IsX(parts[i])
              /\ xp)
        THEN NoRange
        ELSE IF op = << >>
        THEN [ok |-> TRUE,
              comps |->
                IF xm
                THEN << Comparator(<< ">", "=" >>, M, 0, 0, zero),
                        Comparator(<< "<" >>, M + 1, 0, 0, zero) >>
                ELSE << Comparator(<< ">", "=" >>, M, m, 0, zero),
                        Comparator(<< "<" >>, M, m + 1, 0, zero) >>]
        ELSE IF op = << ">" >>
        THEN [ok |-> TRUE,
              comps |->
                IF xm THEN << Comparator(<< ">", "=" >>, M + 1, 0, 0, zero) >>
                ELSE << Comparator(<< ">", "=" >>, M, m + 1, 0, zero) >>]
        ELSE [ok |-> TRUE, comps |-> << Comparator(op, M, m, 0, zero) >>]

\* new Comparator(comp) on a full version: "<1.6.5" is pushed down to the
\* lowest pre-release, "<1.6.5-0", so that it excludes 1.6.5's pre-releases.
ComparatorOn(op, rest, v) ==
    IF ~ v.ok \/ rest # Trim(rest) THEN NoRange
    ELSE [ok |-> TRUE,
          comps |->
            << [op |-> op,
                semver |->
                  IF op = << "<" >> /\ Len(v.prerelease) = 0
                  THEN [v EXCEPT !.prerelease = << << "0" >> >>]
                  ELSE v] >>]

FullComparator(op, rest) == ComparatorOn(op, rest, SemVer(rest))

\* parseComparator + new Comparator for one space-free comparator string.
ComparatorOf(op, rest, parts) ==
    IF IndexOf(rest, "-") # 0 \/ IndexOf(rest, "+") # 0
       \/ (Len(parts) = 3 /\ \A i \in 1..3 : ~ IsX(parts[i]))
    THEN FullComparator(op, rest)
    ELSE ExpandXRange(op, parts)

OperatorAndRest(op, rest) == ComparatorOf(op, rest, Split(rest, "."))

ParseComparator(c) == OperatorAndRest(OperatorOf(c), Drop(c, Len(OperatorOf(c))))

JoinParsed(h, t) ==
    IF h.ok /\ t.ok THEN [ok |-> TRUE, comps |-> h.comps \o t.comps]
    ELSE NoRange

RECURSIVE ParseComparators(_)
ParseComparators(cs) ==
    IF Len(cs) = 0 THEN [ok |-> TRUE, comps |-> << >>]
    ELSE JoinParsed(ParseComparator(cs[1]), ParseComparators(Tail(cs)))

\* new Range(range): one comparator set, its comparators separated by single
\* spaces (the empty range, "||" alternatives, hyphen, tilde and caret
\* ranges are outside the modelled grammar). ok = FALSE where the constructor throws.
ComparatorSet(cs) ==
    IF \E i \in 1..Len(cs) : Len(cs[i]) = 0
    THEN NoRange
    ELSE ParseComparators(cs)

Range(s) == ComparatorSet(Split(Trim(s), " "))

FormatComparator(c) == c.op \o Format(c.semver)

\* Range.prototype.format: the comparators joined by one space.
FormatRange(comps) ==
    Join([i \in 1..Len(comps) |-> FormatComparator(comps[i])], << " " >>)

\* The constructor's result on each string of the model, computed once.
RangeOf == [s \in DOMAIN Spelling |-> Range(Spelling[s])]

ParseRange(s) == RangeOf[s]

\* semver.validRange(range): the normalised range string, or no value.
FormatParsedRange(r) ==
    IF r.ok THEN [ok |-> TRUE, str |-> Str(FormatRange(r.comps))]
    ELSE [ok |-> FALSE]

ValidRange(s) == FormatParsedRange(ParseRange(s))

\* cmp(version, op, semver) on parsed versions.
CmpResult(c, op) ==
    IF op = << ">" >> THEN c > 0
    ELSE IF op = << ">", "=" >> THEN c >= 0
    ELSE IF op = << "<" >> THEN c < 0
    ELSE IF op = << "<", "=" >> THEN c <= 0
    ELSE c = 0

Cmp(v, op, w) == CmpResult(CompareParsed(v, w), op)

\* Range.prototype.test on a parsed version: every comparator of the set
\* must accept it.
SatisfiesParsed(v, r) ==
    /\ r.ok
    /\ \A i \in 1..Len(r.comps) : Cmp(v, r.comps[i].op, r.comps[i].semver)

(***************************************************************************)
(* The caller's inputs                                                     *)
(***************************************************************************)

\* A JavaScript object with string keys: its entries in insertion order.
RECURSIVE ObjectsOver(_, _, _)
ObjectsOver(keys, vals, n) ==
    IF n = 0 THEN { << >> }
    ELSE LET shorter == ObjectsOver(keys, vals, n - 1)
         IN  shorter \cup
             { Append(o, [key |-> k, value |-> v]) :
                 o \in { x \in shorter : Len(x) = n - 1 },
                 k \in keys, v \in vals }

HasKey(obj, k) == \E i \in 1..Len(obj) : obj[i].key = k

UniqueKeys(obj) ==
    \A i, j \in 1..Len(obj) : obj[i].key = obj[j].key => i = j

\* The values a caller can pass as the matrix: the falsy values, the truthy
\* non-objects, a function, an array, and the plain objects over the pools.
FalsyTypes == {"undefined", "null", "zero", "emptyString", "false"}
TruthyPrimitiveTypes == {"number", "string", "true"}

Entry(k, v) == [key |-> k, value |-> v]

\* Three-entry matrices beside the enumerated ones: two raw keys that clean
\* to the same version around a third key, and a bad entry in the last place.
LongerObjects ==
    { << Entry("v1.0.1", "1.6.x"), Entry("v1.0.2-beta", "1.6.x"),
         Entry("1.0.1", ">1.5.2-R0.2 <1.6.5") >>,
      << Entry("v1.0.2-beta", ">1.5.2-R0.2 <1.6.5"), Entry("1.0.1", "1.6.x"),
         Entry("v1.0.1", ">1.5.2-R0.2 <1.6.5") >>,
      << Entry("1.0.1", "1.6.x"), Entry("v1.0.2-beta", "1.6.x"),
         Entry("5.02", ">5.02") >>,
      << Entry("v1.0.2-beta", "1.6.x"), Entry("1.0.1", "1.6.x"),
         Entry("v1.0.1", ">5.02") >> }

RawInputs ==
    { [type |-> t, entries |-> << >>] :
        t \in FalsyTypes \cup TruthyPrimitiveTypes \cup {"function", "array"} }
    \cup
    { [type |-> "object", entries |-> o] :
        o \in { x \in ObjectsOver(RawKeys, RawRanges, MaxEntries) :
                  UniqueKeys(x) } \cup LongerObjects }

(***************************************************************************)
(* JavaScript values and objects                                           *)
(***************************************************************************)

JsUndefined == [type |-> "undefined"]
JsNull == [type |-> "null"]
JsString(s) == [type |-> "string", str |-> s]
JsArray(a) == [type |-> "array", items |-> a]

\* !value
Falsy(raw) == raw.type \in FalsyTypes

\* _.isObject / _.isArray / _.isFunction
IsObject(raw) == raw.type \in {"object", "array", "function"}
IsArray(raw) == raw.type = "array"
IsFunction(raw) == raw.type = "function"

\* A variant of ObjPut in which a key written again moves to the last place.
ObjPutLast(obj, k, v) ==
    Append(SelectSeq(obj, LAMBDA e : e.key # k), [key |-> k, value |-> v])

\* obj[k] = v: a present key keeps its place, a new key goes last.
ObjPut(obj, k, v) ==
    IF HasKey(obj, k)
    THEN [i \in 1..Len(obj) |->
            IF obj[i].key = k THEN [key |-> k, value |-> v] ELSE obj[i]]
    ELSE Append(obj, [key |-> k, value |-> v])

\* delete obj[k]
ObjDelete(obj, k) == SelectSeq(obj, LAMBDA e : e.key # k)

\* _.keys(obj)
Keys(obj) == [i \in 1..Len(obj) |-> obj[i].key]

Returned(v) == [threw |-> FALSE, value |-> v]
Threw(text, quoted) ==
    [threw |-> TRUE, error |-> [message |-> text, quoted |-> quoted]]

(***************************************************************************)
(* The private methods (src/lib/versionCompatibility.js:174-198)           *)
(***************************************************************************)

MissingMessage == "compatibilityMatrix is a required parameter"
TypeMessage ==
    "compatibilityMatrix must be an object with keys of versions numbers, and values of version ranges"
VersionMessage == "is not a valid semantic version number"
RangeMessage == "is not a valid semantic version range"
InvalidVersionMessage == "Invalid Version: "

\* if (!sanitized) throw new Error(message + raw); return sanitized
OrThrow(sanitized, message, raw) ==
    IF ~ sanitized.ok THEN Threw(message, raw) ELSE Returned(sanitized.str)

\* A variant of sanitizeAndValidateVersion that validates the version and
\* returns it as the caller wrote it.
ValidateVersionOnly(version) ==
    IF ~ Clean(version).ok THEN Threw(VersionMessage, version)
    ELSE Returned(version)

sanitizeAndValidateVersion(version) ==
    OrThrow(Clean(version), VersionMessage, version)

sanitizeAndValidateRange(rangeString) ==
    OrThrow(ValidRange(rangeString), RangeMessage, rangeString)

\* The body of the _.each callback: one entry of the caller's matrix is
\* sanitized into sanitizedCompatibilityMatrix, the key before the range.
\* The callback's three statements on their outcomes: a throw of the first
\* or of the second ends it, otherwise the entry is assigned.
AssignSanitized(sanitized, sanitizedPrimaryVersion, sanitizedCompatibleRange) ==
    IF sanitizedPrimaryVersion.threw THEN sanitizedPrimaryVersion
    ELSE IF sanitizedCompatibleRange.threw THEN sanitizedCompatibleRange
    ELSE Returned(ObjPut(sanitized,
                         sanitizedPrimaryVersion.value,
                         sanitizedCompatibleRange.value))

\* A variant of SanitizeEntry that sanitizes the range before the key.
SanitizeEntryRangeFirst(sanitizedCompatibilityMatrix, entry) ==
    AssignSanitized(sanitizedCompatibilityMatrix,
                    IF sanitizeAndValidateRange(entry.value).threw
                    THEN sanitizeAndValidateRange(entry.value)
                    ELSE sanitizeAndValidateVersion(entry.key),
                    sanitizeAndValidateRange(entry.value))

SanitizeEntry(sanitizedCompatibilityMatrix, entry) ==
    AssignSanitized(sanitizedCompatibilityMatrix,
                    sanitizeAndValidateVersion(entry.key),
                    sanitizeAndValidateRange(entry.value))

RECURSIVE SanitizeEach(_, _)
\* _.each over the entries in insertion order; a throw ends the iteration.
\* sanitized is the outcome so far.
SanitizeEach(entries, sanitized) ==
    IF sanitized.threw \/ Len(entries) = 0 THEN sanitized
    ELSE SanitizeEach(Tail(entries), SanitizeEntry(sanitized.value, entries[1]))

\* The two checks on the argument itself (lines 175-178): the error thrown,
\* or no error.
CheckArgument(raw) ==
    IF Falsy(raw) THEN Threw(MissingMessage, "")
    ELSE IF ~ IsObject(raw) \/ IsArray(raw) \/ IsFunction(raw)
    THEN Threw(TypeMessage, "")
    ELSE Returned(raw.entries)

sanitizeAndValidateCompatibilityMatrix(raw) ==
    IF CheckArgument(raw).threw THEN CheckArgument(raw)
    ELSE SanitizeEach(raw.entries, Returned(<< >>))

(***************************************************************************)
(* The queries (src/lib/versionCompatibility.js:100-163)                   *)
(***************************************************************************)

\* this.all
all(matrix) == Keys(matrix)

\* semver.satisfies(version, range). An unparsable range is caught inside
\* and gives false. For an unparsable version the installed release of the
\* dependency decides: a strict one lets new SemVer(version) throw
\* TypeError('Invalid Version: ...') out of Range.test, a lenient one
\* returns false.
Test(version, v, r, strict) ==
    IF ~ r.ok \/ version = "" THEN Returned(FALSE)
    ELSE IF ~ v.ok
    THEN IF strict THEN Threw(InvalidVersionMessage, version)
         ELSE Returned(FALSE)
    ELSE Returned(SatisfiesParsed(v, r))

Satisfies(version, range, strict) ==
    Test(version, ParseVersion(version), ParseRange(range), strict)

RECURSIVE Insert(_, _)
\* x goes before the first element it sorts before (rcompare(x, y) < 0).
Insert(x, sorted) ==
    IF Len(sorted) = 0 THEN << x >>
    ELSE IF RCompare(x, sorted[1]) < 0 THEN << x >> \o sorted
    ELSE << sorted[1] >> \o Insert(x, Tail(sorted))

RECURSIVE Sorted(_)
Sorted(a) ==
    IF Len(a) = 0 THEN << >>
    ELSE Insert(a[Len(a)], Sorted(Take(a, Len(a) - 1)))

\* Array.prototype.sort(semver.rcompare). The comparator runs once there are
\* two elements, and throws TypeError('Invalid Version: ...') on an element
\* that is no version.
SortOrThrow(a, bad) ==
    IF Len(a) >= 2 /\ bad # {}
    THEN Threw(InvalidVersionMessage,
               a[CHOOSE i \in bad : \A j \in bad : i <= j])
    ELSE Returned(Sorted(a))

SortRCompare(a) ==
    SortOrThrow(a, { i \in 1..Len(a) : ~ ParseVersion(a[i]).ok })

\* The body of the _.each callback of compatibleWith:
\* if (semver.satisfies(version, compatibleRange)) push(primaryVersion)
PushIf(satisfied, compatibleVersions, primaryVersion) ==
    IF satisfied.threw THEN satisfied
    ELSE IF satisfied.value
    THEN Returned(Append(compatibleVersions, primaryVersion))
    ELSE Returned(compatibleVersions)

RECURSIVE PushCompatible(_, _, _, _)
\* The _.each of compatibleWith over the matrix in its order; a throw of
\* satisfies ends the iteration. pushed is the outcome so far.
PushCompatible(entries, version, strict, pushed) ==
    IF pushed.threw \/ Len(entries) = 0 THEN pushed
    ELSE PushCompatible(Tail(entries), version, strict,
            PushIf(Satisfies(version, entries[1].value, strict),
                   pushed.value, entries[1].key))

SortPushed(pushed) ==
    IF pushed.threw THEN pushed ELSE SortRCompare(pushed.value)

\* A variant of compatibleWith that returns the keys in the matrix's order.
compatibleWithUnsorted(matrix, version, strict) ==
    PushCompatible(matrix, version, strict, Returned(<< >>))

\* this.compatibleWith
compatibleWith(matrix, version, strict) ==
    SortPushed(PushCompatible(matrix, version, strict, Returned(<< >>)))

\* An array is truthy, the empty one too.
ArrayTruthy(a) == TRUE

\* a[0]: undefined when the array is empty.
First(a) == IF Len(a) > 0 THEN JsString(a[1]) ELSE JsUndefined

\* this.recommendedFor
\* compatibleVersions ? compatibleVersions[0] : null
FirstOrNull(compatibleVersions) ==
    IF compatibleVersions.threw THEN compatibleVersions
    ELSE Returned(IF ArrayTruthy(compatibleVersions.value)
                  THEN First(compatibleVersions.value)
                  ELSE JsNull)

recommendedFor(matrix, version, strict) ==
    FirstOrNull(compatibleWith(matrix, version, strict))

(***************************************************************************)
(* The instance                                                            *)
(***************************************************************************)

VARIABLES
    compatibilityMatrix,  \* the closure variable every method reads
    last,                 \* the last call on the instance and its outcome
    before,               \* history: compatibilityMatrix when that call began
    acceptedKeys,         \* history: the caller's keys, in the caller's order,
                          \*   of the last matrix that was accepted
    view,                 \* what the caller kept from reading the property:
                          \*   "none", "live" (the object the closure variable
                          \*   holds) or "stale" (an object it held earlier)
    call                  \* a setCompatibilityMatrix call in progress

vars == << compatibilityMatrix, last, before, acceptedKeys, view, call >>

Call(op, arg, out) == [op |-> op, arg |-> arg, out |-> out]

Idle == [pc |-> "idle"]

\* The outcome a caller of setCompatibilityMatrix sees.
SetOutcome(out) == IF out.threw THEN out ELSE Returned(JsUndefined)

\* sanitizeAndValidateCompatibilityMatrix on each value a caller can pass,
\* computed once.
Sanitizations ==
    { [raw |-> raw, out |-> sanitizeAndValidateCompatibilityMatrix(raw)] :
        raw \in RawInputs }

\* new VersionCompatibility(raw): the initializer (line 201) runs
\* setCompatibilityMatrix; when it throws, no instance exists.
Constructed(s) ==
    /\ compatibilityMatrix = IF s.out.threw THEN << >> ELSE s.out.value
    /\ last = Call("construct", s.raw, SetOutcome(s.out))
    /\ before = << >>
    /\ acceptedKeys = IF s.out.threw THEN << >> ELSE Keys(s.raw.entries)
    /\ view = "none"
    /\ call = Idle

Init == \E s \in Sanitizations : Constructed(s)

Alive == ~ (last.op = "construct" /\ last.out.threw)

\* A reference the caller kept goes on pointing at the object it was read
\* from when the closure variable is assigned a new object.
Detached(v) == IF v = "live" THEN "stale" ELSE v

\* A variant of setCompatibilityMatrix that empties the closure variable
\* before it validates, so that a failing call loses the matrix.
SetClearingFirst(s) ==
    /\ Alive
    /\ call = Idle
    /\ compatibilityMatrix' = IF s.out.threw THEN << >> ELSE s.out.value
    /\ last' = Call("setCompatibilityMatrix", s.raw, SetOutcome(s.out))
    /\ before' = compatibilityMatrix
    /\ acceptedKeys' =
          IF s.out.threw THEN acceptedKeys ELSE Keys(s.raw.entries)
    /\ view' = IF s.out.threw THEN view ELSE Detached(view)
    /\ UNCHANGED call

RECURSIVE PutAll(_, _)
PutAll(obj, entries) ==
    IF Len(entries) = 0 THEN obj
    ELSE PutAll(ObjPut(obj, entries[1].key, entries[1].value), Tail(entries))

\* A variant of setCompatibilityMatrix that adds the sanitized entries to
\* the matrix it holds instead of replacing it.
SetMerging(s) ==
    /\ Alive
    /\ call = Idle
    /\ compatibilityMatrix' =
          IF s.out.threw THEN compatibilityMatrix
          ELSE PutAll(compatibilityMatrix, s.out.value)
    /\ last' = Call("setCompatibilityMatrix", s.raw, SetOutcome(s.out))
    /\ before' = compatibilityMatrix
    /\ acceptedKeys' =
          IF s.out.threw THEN acceptedKeys ELSE Keys(s.raw.entries)
    /\ view' = IF s.out.threw THEN view ELSE Detached(view)
    /\ UNCHANGED call

\* this.setCompatibilityMatrix (lines 78-80) with s.out the result of
\* sanitizeAndValidateCompatibilityMatrix(s.raw): the assignment happens
\* only when that call returns.
setCompatibilityMatrix(s) ==
    /\ Alive
    /\ call = Idle
    /\ compatibilityMatrix' =
          IF s.out.threw THEN compatibilityMatrix ELSE s.out.value
    /\ last' = Call("setCompatibilityMatrix", s.raw, SetOutcome(s.out))
    /\ before' = compatibilityMatrix
    /\ acceptedKeys' =
          IF s.out.threw THEN acceptedKeys ELSE Keys(s.raw.entries)
    /\ view' = IF s.out.threw THEN view ELSE Detached(view)
    /\ UNCHANGED call

\* A call that reads the instance and changes nothing.
Reads(op, arg, out) ==
    /\ Alive
    /\ last' = Call(op, arg, out)
    /\ before' = compatibilityMatrix
    /\ UNCHANGED << compatibilityMatrix, acceptedKeys, view, call >>

ArrayOutcome(out) == IF out.threw THEN out ELSE Returned(JsArray(out.value))

CallAll == Reads("all", "", Returned(JsArray(all(compatibilityMatrix))))

\* strict: whether the installed engine throws on a version it cannot parse.
CallCompatibleWith(version, strict) ==
    Reads("compatibleWith", version,
          ArrayOutcome(compatibleWith(compatibilityMatrix, version, strict)))

CallRecommendedFor(version, strict) ==
    Reads("recommendedFor", version,
          recommendedFor(compatibilityMatrix, version, strict))

\* The getter of the compatibilityMatrix property (line 170): the closure
\* variable's object itself.
GetCompatibilityMatrix ==
    Reads("compatibilityMatrix", "", Returned(compatibilityMatrix))

Next ==
    \/ \E s \in Sanitizations : setCompatibilityMatrix(s)
    \/ CallAll
    \/ \E version \in Queries, strict \in BOOLEAN :
          CallCompatibleWith(version, strict)
    \/ \E version \in Queries, strict \in BOOLEAN :
          CallRecommendedFor(version, strict)
    \/ GetCompatibilityMatrix

Spec == Init /\ [][Next]_vars

(***************************************************************************)
(* A caller that keeps what the compatibilityMatrix property returns       *)
(***************************************************************************)

\* What the caller writes through the reference it kept.
AliasKeys == {"v1.0.1", "1.0.1"}
AliasRanges == {"1.6.x"}
AliasQueries == {"1.6.4", "1.8.0"}

\* The matrices the caller constructs and sets here: at most one entry.
AliasSanitizations == { s \in Sanitizations : Len(s.raw.entries) <= 1 }

AliasInit == \E s \in AliasSanitizations : Constructed(s)

\* var m = instance.compatibilityMatrix: the getter returns the closure
\* variable's object, and the caller keeps the reference.
KeepCompatibilityMatrix ==
    /\ Alive
    /\ last' = Call("compatibilityMatrix", "", Returned(compatibilityMatrix))
    /\ before' = compatibilityMatrix
    /\ view' = "live"
    /\ UNCHANGED << compatibilityMatrix, acceptedKeys, call >>

\* instance.compatibilityMatrix = raw: the property has a getter and no
\* setter, so the assignment is ignored in sloppy code and throws a
\* TypeError in strict code (callerStrict); the closure variable is not
\* reached either way.
AssignProperty(raw, callerStrict) ==
    /\ Alive
    /\ last' = Call("assign", raw,
                    IF callerStrict
                    THEN Threw("Cannot set property compatibilityMatrix", "")
                    ELSE Returned(JsUndefined))
    /\ before' = compatibilityMatrix
    /\ UNCHANGED << compatibilityMatrix, acceptedKeys, view, call >>

\* m[k] = v on the kept reference: a live reference is the closure
\* variable's object.
ViewPut(k, v) ==
    /\ Alive
    /\ view # "none"
    /\ compatibilityMatrix' =
          IF view = "live" THEN ObjPut(compatibilityMatrix, k, v)
          ELSE compatibilityMatrix
    /\ last' = Call("viewPut", Entry(k, v), Returned(JsUndefined))
    /\ before' = compatibilityMatrix
    /\ UNCHANGED << acceptedKeys, view, call >>

\* delete m[k] on the kept reference.
ViewDelete(k) ==
    /\ Alive
    /\ view # "none"
    /\ compatibilityMatrix' =
          IF view = "live" THEN ObjDelete(compatibilityMatrix, k)
          ELSE compatibilityMatrix
    /\ last' = Call("viewDelete", k, Returned(JsUndefined))
    /\ before' = compatibilityMatrix
    /\ UNCHANGED << acceptedKeys, view, call >>

AliasNext ==
    \/ \E s \in AliasSanitizations : setCompatibilityMatrix(s)
    \/ KeepCompatibilityMatrix
    \/ \E s \in AliasSanitizations, callerStrict \in BOOLEAN :
          AssignProperty(s.raw, callerStrict)
    \/ \E k \in AliasKeys, v \in AliasRanges : ViewPut(k, v)
    \/ \E k \in AliasKeys : ViewDelete(k)
    \/ CallAll
    \/ \E version \in AliasQueries, strict \in BOOLEAN :
          CallCompatibleWith(version, strict)
    \/ \E version \in AliasQueries, strict \in BOOLEAN :
          CallRecommendedFor(version, strict)

SpecAlias == AliasInit /\ [][AliasNext]_vars

(***************************************************************************)
(* setCompatibilityMatrix one step at a time, with readers in between      *)
(***************************************************************************)

StepQueries == {"1.6.4", "5.02"}

\* The call has begun and has not returned.
Pending == [threw |-> FALSE, pending |-> TRUE]

\* Lines 175-179: the two checks on the argument, then the empty object the
\* entries are sanitized into.
EnterSet(raw) ==
    /\ Alive
    /\ call = Idle
    /\ before' = compatibilityMatrix
    /\ IF CheckArgument(raw).threw
       THEN /\ last' = Call("setCompatibilityMatrix", raw, CheckArgument(raw))
            /\ UNCHANGED call
       ELSE /\ last' = Call("setCompatibilityMatrix", raw, Pending)
            /\ call' = [pc |-> "each", raw |-> raw, rest |-> raw.entries,
                        sanitizedCompatibilityMatrix |-> << >>]
    /\ UNCHANGED << compatibilityMatrix, acceptedKeys, view >>

\* A variant of EachStep that writes each sanitized entry into the closure
\* variable's object as it goes.
EachStepInPlace ==
    /\ call.pc = "each"
    /\ Len(call.rest) > 0
    /\ \E step \in { SanitizeEntry(compatibilityMatrix, call.rest[1]) } :
          IF step.threw
          THEN /\ last' = Call("setCompatibilityMatrix", call.raw, step)
               /\ call' = Idle
               /\ UNCHANGED compatibilityMatrix
          ELSE /\ call' = [call EXCEPT !.rest = Tail(@),
                             !.sanitizedCompatibilityMatrix = step.value]
               /\ compatibilityMatrix' = step.value
               /\ UNCHANGED last
    /\ UNCHANGED << before, acceptedKeys, view >>

\* Lines 180-184: one turn of the _.each, on the next entry of the caller's
\* matrix. A throw ends the call; the closure variable is not written.
EachStep ==
    /\ call.pc = "each"
    /\ Len(call.rest) > 0
    /\ \E step \in { SanitizeEntry(call.sanitizedCompatibilityMatrix,
                                   call.rest[1]) } :
          IF step.threw
          THEN /\ last' = Call("setCompatibilityMatrix", call.raw, step)
               /\ call' = Idle
          ELSE /\ call' = [call EXCEPT !.rest = Tail(@),
                             !.sanitizedCompatibilityMatrix = step.value]
               /\ UNCHANGED last
    /\ UNCHANGED << compatibilityMatrix, before, acceptedKeys, view >>

\* Lines 185 and 79: the sanitized object is returned and assigned to the
\* closure variable.
AssignSanitizedMatrix ==
    /\ call.pc = "each"
    /\ Len(call.rest) = 0
    /\ compatibilityMatrix' = call.sanitizedCompatibilityMatrix
    /\ last' = Call("setCompatibilityMatrix", call.raw, Returned(JsUndefined))
    /\ before' = compatibilityMatrix
    /\ acceptedKeys' = Keys(call.raw.entries)
    /\ view' = Detached(view)
    /\ call' = Idle

StepsNext ==
    \/ \E raw \in RawInputs : EnterSet(raw)
    \/ EachStep
    \/ AssignSanitizedMatrix
    \/ CallAll
    \/ \E version \in StepQueries, strict \in BOOLEAN :
          CallCompatibleWith(version, strict)
    \/ \E version \in StepQueries, strict \in BOOLEAN :
          CallRecommendedFor(version, strict)
    \/ GetCompatibilityMatrix

SpecSteps == Init /\ [][StepsNext]_vars
(***************************************************************************)
(* Properties                                                              *)
(***************************************************************************)

IsSet == last.op = "setCompatibilityMatrix"
IsSetOrConstruct == last.op \in {"setCompatibilityMatrix", "construct"}

CleanKey(k) == Clean(k).str
NormalRange(r) == ValidRange(r).str
EntryOk(e) == Clean(e.key).ok /\ ValidRange(e.value).ok

\* The elements of a sequence, each once, in the order of first occurrence.
RECURSIVE Distinct(_)
Distinct(seq) ==
    IF Len(seq) = 0 THEN << >>
    ELSE LET init == Distinct(Take(seq, Len(seq) - 1))
         IN  IF \E i \in 1..Len(init) : init[i] = seq[Len(seq)] THEN init
             ELSE Append(init, seq[Len(seq)])

Elements(seq) == { seq[i] : i \in 1..Len(seq) }

\* C1: a setCompatibilityMatrix call that fails with a validation error
\* leaves the matrix identical to the matrix before the call, and all(),
\* compatibleWith(v) and recommendedFor(v) return what they returned before.
C1_FailedSetKeepsMatrix ==
    (IsSet /\ last.out.threw) =>
        /\ compatibilityMatrix = before
        /\ all(compatibilityMatrix) = all(before)
        /\ \A v \in Queries, strict \in BOOLEAN :
              /\ compatibleWith(compatibilityMatrix, v, strict)
                    = compatibleWith(before, v, strict)
              /\ recommendedFor(compatibilityMatrix, v, strict)
                    = recommendedFor(before, v, strict)

\* A two-entry matrix whose first entry is good and whose second has a bad
\* range is refused by an instance that holds a matrix.
C1_Witness ==
    /\ IsSet /\ last.out.threw
    /\ last.out.error.message = RangeMessage
    /\ Len(last.arg.entries) = 2
    /\ Len(before) > 0
    /\ CleanKey(last.arg.entries[1].key) \notin Elements(Keys(before))

\* The places of the matrix whose range the version satisfies.
SatisfiedBy(matrix, version) ==
    { i \in 1..Len(matrix) :
        /\ ParseVersion(version).ok
        /\ SatisfiesParsed(ParseVersion(version), ParseRange(matrix[i].value)) }

C3_RecommendedFirstOrNull ==
    (last.op = "recommendedFor" /\ ParseVersion(last.arg).ok) =>
        /\ ~ last.out.threw
        /\ LET compatible ==
                  compatibleWith(compatibilityMatrix, last.arg, FALSE).value
           IN  last.out.value = IF Len(compatible) = 0 THEN JsNull
                                ELSE JsString(compatible[1])

\* C4: all() returns the normalized keys of the last accepted raw matrix, in
\* the order its keys appeared; a key that two raw keys normalize to stands
\* where the first of them appeared.
C4_AllInRawOrder ==
    (last.op = "all") =>
        last.out.value.items =
            Distinct([i \in 1..Len(acceptedKeys) |-> CleanKey(acceptedKeys[i])])

\* all() on a matrix accepted from three raw keys, two of which normalize to
\* the same version.
C4_Witness ==
    /\ last.op = "all"
    /\ Len(acceptedKeys) = 3
    /\ Len(last.out.value.items) = 2
    /\ CleanKey(acceptedKeys[1]) = CleanKey(acceptedKeys[3])

\* The place of the first entry that does not normalize, 0 when all do.
FirstBad(entries) ==
    IF \A i \in 1..Len(entries) : EntryOk(entries[i]) THEN 0
    ELSE CHOOSE i \in 1..Len(entries) :
            /\ ~ EntryOk(entries[i])
            /\ \A j \in 1..(i - 1) : EntryOk(entries[j])

\* The error the fixed order of checks asks for, no error when all pass.
ExpectedError(raw) ==
    IF raw.type \in FalsyTypes THEN Threw(MissingMessage, "")
    ELSE IF raw.type \in TruthyPrimitiveTypes \cup {"array", "function"}
    THEN Threw(TypeMessage, "")
    ELSE IF FirstBad(raw.entries) = 0 THEN Returned(JsUndefined)
    ELSE IF ~ Clean(raw.entries[FirstBad(raw.entries)].key).ok
    THEN Threw(VersionMessage, raw.entries[FirstBad(raw.entries)].key)
    ELSE Threw(RangeMessage, raw.entries[FirstBad(raw.entries)].value)

\* C5: construction and setCompatibilityMatrix report the first failing
\* check: missing argument, then wrong type, then the entries in order, the
\* key before the range, with the offending raw string; no error otherwise.
C5_FirstFailingCheck ==
    IsSetOrConstruct => last.out = ExpectedError(last.arg)

\* A good entry followed by an entry whose key and range are both bad: the
\* key is reported.
C5_Witness ==
    /\ IsSet /\ last.out.threw
    /\ Len(last.arg.entries) = 2
    /\ EntryOk(last.arg.entries[1])
    /\ last.arg.entries[2] = Entry("5.02", ">5.02")
    /\ last.out.error = [message |-> VersionMessage, quoted |-> "5.02"]

\* C6: nothing the caller does with the value read from the property (an
\* assignment to the property, a write to or a delete from the returned
\* mapping) changes the instance's matrix.
C6_ViewReadOnly ==
    (last.op \in {"assign", "viewPut", "viewDelete"}) =>
        /\ compatibilityMatrix = before
        /\ all(compatibilityMatrix) = all(before)

\* The normalized entries a raw matrix asks for: of the raw entries whose
\* keys normalize to one version, the last.
ExpectedEntries(entries) ==
    { Entry(CleanKey(entries[i].key), NormalRange(entries[i].value)) :
        i \in { i \in 1..Len(entries) :
                  \A j \in (i + 1)..Len(entries) :
                      CleanKey(entries[j].key) # CleanKey(entries[i].key) } }

\* C7: after a successful setCompatibilityMatrix the matrix is the fold of
\* the raw entries (a later entry overwriting an earlier one with the same
\* normalized key); nothing of the previous matrix survives, and the state
\* is that of a fresh instance constructed from the same raw matrix.
C7_SetReplacesMatrix ==
    (IsSet /\ ~ last.out.threw) =>
        /\ Elements(compatibilityMatrix) = ExpectedEntries(last.arg.entries)
        /\ Len(compatibilityMatrix)
              = Cardinality(ExpectedEntries(last.arg.entries))
        /\ \E s \in Sanitizations :
              /\ s.raw = last.arg
              /\ compatibilityMatrix = s.out.value

\* Three raw entries, two of them on one version, replace a matrix with an
\* entry the new matrix has not.
C7_Witness ==
    /\ IsSet /\ ~ last.out.threw
    /\ Len(last.arg.entries) = 3
    /\ Len(compatibilityMatrix) = 2
    /\ \E i \in 1..Len(before) : before[i] \notin Elements(compatibilityMatrix)

StartsWithV(s) == Len(Chars(s)) > 0 /\ Chars(s)[1] = "v"
Untrimmed(s) == Trim(Chars(s)) # Chars(s)

\* C9: in every state reached by construction, setCompatibilityMatrix calls
\* and queries, every key is a normalized version (what clean returns: no
\* leading v, no surrounding whitespace) and every value a normalized range
\* (what validRange returns).
C9_MatrixNormalized ==
    \A i \in 1..Len(compatibilityMatrix) :
        /\ Clean(compatibilityMatrix[i].key).ok
        /\ CleanKey(compatibilityMatrix[i].key) = compatibilityMatrix[i].key
        /\ ~ StartsWithV(compatibilityMatrix[i].key)
        /\ ~ Untrimmed(compatibilityMatrix[i].key)
        /\ ValidRange(compatibilityMatrix[i].value).ok
        /\ NormalRange(compatibilityMatrix[i].value)
              = compatibilityMatrix[i].value

\* A matrix accepted from a key with a leading v and an x-range.
C9_Witness ==
    /\ IsSet /\ ~ last.out.threw
    /\ Len(last.arg.entries) > 0
    /\ StartsWithV(last.arg.entries[1].key)
    /\ last.arg.entries[1].value = "1.6.x"
    /\ Len(compatibilityMatrix) > 0
    /\ compatibilityMatrix[1].value # "1.6.x"

\* C10: while a setCompatibilityMatrix call normalizes its entries, the
\* matrix is the one the call found, and so is what an interleaved reader
\* gets; the matrix changes once, when the call returns, to the complete
\* new matrix; a call that throws leaves it.
C10_AtomicSwap ==
    /\ (call.pc = "each") =>
          /\ compatibilityMatrix = before
          /\ (last.op = "compatibilityMatrix") => last.out.value = before
          /\ (last.op = "all") => last.out.value.items = Keys(before)
    /\ (call = Idle /\ IsSet /\ last.out.threw) =>
          compatibilityMatrix = before
    /\ (call = Idle /\ IsSet /\ ~ last.out.threw) =>
          \E s \in Sanitizations :
              /\ s.raw = last.arg
              /\ compatibilityMatrix = s.out.value

\* A reader calls all() between two turns of the loop, when one new entry is
\* sanitized and the instance holds another matrix.
C10_Witness ==
    /\ call.pc = "each"
    /\ Len(call.sanitizedCompatibilityMatrix) = 1
    /\ Len(call.rest) = 1
    /\ last.op = "all"
    /\ Len(before) > 0
    /\ call.sanitizedCompatibilityMatrix[1] \notin Elements(before)
====
